---- MODULE Spec2Model ----
(***************************************************************************)
(* Model of the PMS5003 driver (src/src/lib.rs).                           *)
(*                                                                         *)
(* Two state machines share the module, one per group of fields of the     *)
(* struct PMS5003:                                                         *)
(*   - the frame decoder, PMS5003::measure, which only touches `tty`;      *)
(*     one step per tty.read() call, under the specification Spec;         *)
(*   - the device controller, PMS5003::init and PMS5003::reset, which      *)
(*     only touch `dc`, `rst` and `delay`; one step per pin or delay       *)
(*     operation, under the specification SpecCtl.                         *)
(* The methods take &mut self, so calls never overlap, and the two groups  *)
(* of fields are disjoint, so each machine is explored on its own.         *)
(***************************************************************************)
EXTENDS Integers, Sequences, FiniteSets, TLC

----------------------------------------------------------------------------
(* Bounds of the exploration *)

\* longest run of noise bytes put in front of the first frame
MaxNoise == 2
\* number of measure() calls
MaxCalls == 2
\* number of init()/reset() calls
MaxCtlCalls == 3

----------------------------------------------------------------------------
(* Program constants *)

\* const PMS5003_DATA_START: [u8;2] = [0x42, 0x4d];
PMS5003_DATA_START == <<66, 77>>
\* const PMS5003_DATA_LENGTH: usize = 26;
PMS5003_DATA_LENGTH == 26
\* u16 arithmetic
U16 == 65536

----------------------------------------------------------------------------
(* Pure functions of the source *)

\* extract_u16 without the high byte
extract_u16_lowOnly(d, o) == d[o + 2]

\* extract_u16 reading the low byte first
extract_u16_le(d, o) == ((d[o + 2] * 256) % U16) + d[o + 1]

\* extract_u16!: (($data[o] as u16) << 8) | ($data[o + 1] as u16), with a
\* 0-based offset o into the 1-based sequence data.  The shifted high byte
\* has its low 8 bits clear, so the bitwise or is an addition.
extract_u16(d, o) == ((d[o + 1] * 256) % U16) + d[o + 2]

\* checksum!: let mut checksum = 0u16; for i in 0..len { checksum += d[i] }
\* The exact (unbounded) sum, used to tell whether the u16 addition overflows.
RECURSIVE ExactSum(_)
ExactSum(d) == IF d = <<>> THEN 0 ELSE d[1] + ExactSum(Tail(d))

\* checksum whose loop starts at index 1
checksum_skipFirst(d) == ExactSum(Tail(d)) % U16

\* The value of the u16 accumulator when no addition overflows, and the
\* wrapped value of a release build when one does.
checksum(d) == ExactSum(d) % U16

\* received over the 24 payload bytes that parse reads
received_noReserved(rl, d) ==
  (checksum(PMS5003_DATA_START) + checksum(rl) + checksum(SubSeq(d, 1, 24))) % U16

\* received without the marker bytes
received_noMarker(rl, d) == (checksum(rl) + checksum(d)) % U16

\* received without the length field
received_noLength(rl, d) == (checksum(PMS5003_DATA_START) + checksum(d)) % U16

\* measure: let received = checksum!(PMS5003_DATA_START)
\*                         + checksum!(raw_length) + checksum!(data);
received(rl, d) == (checksum(PMS5003_DATA_START) + checksum(rl) + checksum(d)) % U16

\* parse reading the atmospheric values at the offsets of the standard ones
parse_shifted(d) ==
  [ ug_per_m3 |->
      [ pm1p0 |-> extract_u16(d, 0),
        pm2p5 |-> extract_u16(d, 2),
        pm10p0 |-> extract_u16(d, 4) ],
    ug_per_m3_atmospheric |->
      [ pm1p0 |-> extract_u16(d, 0),
        pm2p5 |-> extract_u16(d, 2),
        pm10p0 |-> extract_u16(d, 4) ],
    per_0p1l |->
      [ pm0p3 |-> extract_u16(d, 12),
        pm0p5 |-> extract_u16(d, 14),
        pm1p0 |-> extract_u16(d, 16),
        pm2p5 |-> extract_u16(d, 18),
        pm5p0 |-> extract_u16(d, 20),
        pm10p0 |-> extract_u16(d, 22) ] ]

\* Measurement::parse
parse(d) ==
  [ ug_per_m3 |->
      [ pm1p0 |-> extract_u16(d, 0),
        pm2p5 |-> extract_u16(d, 2),
        pm10p0 |-> extract_u16(d, 4) ],
    ug_per_m3_atmospheric |->
      [ pm1p0 |-> extract_u16(d, 6),
        pm2p5 |-> extract_u16(d, 8),
        pm10p0 |-> extract_u16(d, 10) ],
    per_0p1l |->
      [ pm0p3 |-> extract_u16(d, 12),
        pm0p5 |-> extract_u16(d, 14),
        pm1p0 |-> extract_u16(d, 16),
        pm2p5 |-> extract_u16(d, 18),
        pm5p0 |-> extract_u16(d, 20),
        pm10p0 |-> extract_u16(d, 22) ] ]

----------------------------------------------------------------------------
(* Results of measure(): Result<Measurement, Error<E>> *)

NoResult == [kind |-> "None"]
Ok(m) == [kind |-> "Ok", m |-> m]
\* InvalidData with its two values exchanged
InvalidData_swapped(r, x) == [kind |-> "InvalidData", received |-> x, expected |-> r]
InvalidData(r, x) == [kind |-> "InvalidData", received |-> r, expected |-> x]
InvalidLength(length) == [kind |-> "InvalidLength", length |-> length]
Serial(e) == [kind |-> "Serial", e |-> e]

(* Results of one tty.read(): nb::Result<u8, E> *)
NoRead == [kind |-> "None"]
ReadByte(b) == [kind |-> "Byte", b |-> b]
ReadWouldBlock == [kind |-> "WouldBlock"]
ReadErr(e) == [kind |-> "Err", e |-> e]

\* the hard errors E the byte source can report
IOErrors == {1, 2}

----------------------------------------------------------------------------
(* The bytes the sensor puts on the wire *)

\* big-endian encoding of a 16-bit value, as the sensor sends it
U16Bytes(v) == <<v \div 256, v % 256>>

\* one frame on the wire: marker, length field, payload, trailer
Frame(len, payload, trailer) ==
  PMS5003_DATA_START \o U16Bytes(len) \o payload \o U16Bytes(trailer)

\* the trailer the sum rule asks for
SumRule(len, payload) ==
  (ExactSum(PMS5003_DATA_START) + ExactSum(U16Bytes(len)) + ExactSum(payload)) % U16

ValidFrame(payload) ==
  Frame(PMS5003_DATA_LENGTH + 2, payload, SumRule(PMS5003_DATA_LENGTH + 2, payload))

ZeroPayload == [i \in 1..PMS5003_DATA_LENGTH |-> 0]

\* a payload whose bytes all differ: 1, 2, ..., 26
RampPayload == [i \in 1..PMS5003_DATA_LENGTH |-> i]

\* the payload with the largest sum
FullPayload == [i \in 1..PMS5003_DATA_LENGTH |-> 255]

\* payloads that differ from the zero payload in one of the last two bytes
ReservedPayloads == {[ZeroPayload EXCEPT ![i] = 255] : i \in {25, 26}}

Payloads == {ZeroPayload, RampPayload, FullPayload} \cup ReservedPayloads

\* noise in front of the first frame: any bytes among 0x00, 0x42, 0x4D
NoiseBytes == {0, 66, 77}
RECURSIVE SeqsUpTo(_, _)
SeqsUpTo(S, n) ==
  IF n = 0 THEN {<<>>}
  ELSE LET shorter == SeqsUpTo(S, n - 1)
       IN shorter \cup {Append(s, b) : s \in {t \in shorter : Len(t) = n - 1}, b \in S}
Noises == SeqsUpTo(NoiseBytes, MaxNoise)

\* frames whose trailer breaks the sum rule: the zero payload with trailer
\* 0x0000 or 0x008F, and a payload changed in one of its last two bytes
\* under the trailer 0x00AB of the zero payload
BadTrailerFrames ==
  {Frame(28, ZeroPayload, t) : t \in {0, 143}}
  \cup {Frame(28, p, 171) : p \in ReservedPayloads}

\* frames whose length field is not 28: 0x001A, 0x011C, 0x1C00
BadLengthFrames ==
  {Frame(l, ZeroPayload, SumRule(l, ZeroPayload)) : l \in {26, 284, 7168}}

\* frames whose trailer is above every sum a frame can have: 0xFFAB, which
\* agrees with the sum of the zero payload in its low byte, and 6802, one
\* more than the largest sum
HighTrailerFrames ==
  {Frame(28, ZeroPayload, 65451), Frame(28, FullPayload, 6802)}

\* the first frame: valid, or with a wrong trailer, or with a wrong length
FirstFrames ==
  {ValidFrame(p) : p \in Payloads} \cup BadTrailerFrames \cup HighTrailerFrames
  \cup BadLengthFrames

\* the first frames that a second frame follows on the wire
FollowedFrames ==
  {ValidFrame(ZeroPayload), Frame(28, ZeroPayload, 0), Frame(26, ZeroPayload, SumRule(26, ZeroPayload))}

\* the second frame, always valid
SecondFrame == ValidFrame(RampPayload)

\* does a valid frame start right after the first k bytes of t ?
ValidFrameAt(t, k) ==
  /\ Len(t) >= k + PMS5003_DATA_LENGTH + 6
  /\ LET f == SubSeq(t, k + 1, k + PMS5003_DATA_LENGTH + 6)
     IN f = ValidFrame(SubSeq(f, 5, PMS5003_DATA_LENGTH + 4))

\* a frame cut short after a length field that is not 28
CutFrame == PMS5003_DATA_START \o U16Bytes(26)

Tapes ==
  {n \o f : n \in Noises, f \in FirstFrames}
  \cup {n \o f \o SecondFrame : n \in Noises, f \in FollowedFrames \cup {CutFrame}}

----------------------------------------------------------------------------
(* State *)

VARIABLES
  tape,         \* the bytes the source delivers, in arrival order
  pos,          \* number of bytes of tape consumed so far
  lastRead,     \* outcome of the latest tty.read() of the current call
  pc,           \* position in measure(): idle, sync, len, data, chk, done
  calls,        \* number of calls made so far
  prev,         \* kind of the result of the call before the current one
  frameAt,      \* pos when the current call began if a valid frame started
                \* there, and -1 otherwise
  expect,       \* measure: let mut expect
  raw_length,   \* measure: bytes of raw_length read so far
  data,         \* measure: bytes of data read so far
  raw_expected, \* measure: bytes of raw_expected read so far
  result,       \* what the latest measure() call returned
  dc,           \* level last driven on the data/command pin
  rst,          \* level last driven on the reset pin
  events,       \* pin and delay operations of the current init()/reset() call
  cpc,          \* position in init()/reset()
  op,           \* the method the caller invoked: init or reset
  ctlCalls,     \* number of init()/reset() calls made so far
  cresult,      \* what the latest init()/reset() call returned
  lastPin       \* outcome of the latest pin operation of the current call

decVars == <<tape, pos, lastRead, pc, calls, prev, frameAt, expect,
             raw_length, data, raw_expected, result>>
ctlVars == <<dc, rst, events, cpc, op, ctlCalls, cresult, lastPin>>
vars == <<decVars, ctlVars>>

srcVars == <<tape, pos>>
locals == <<expect, raw_length, data, raw_expected>>

\* PMS5003::new: nothing read, no pin driven yet
New ==
  /\ pos = 0
  /\ lastRead = NoRead
  /\ pc = "idle"
  /\ calls = 0
  /\ prev = "None"
  /\ frameAt = -1
  /\ expect = 0
  /\ raw_length = <<>>
  /\ data = <<>>
  /\ raw_expected = <<>>
  /\ result = NoResult
  /\ dc = "unset"
  /\ rst = "unset"
  /\ events = <<>>
  /\ cpc = "idle"
  /\ op = "none"
  /\ ctlCalls = 0
  /\ cresult = [kind |-> "None"]
  /\ lastPin = [kind |-> "None"]

\* the decoder in front of a sensor that sends one of Tapes
Init == tape \in Tapes /\ New

\* the controller; the serial line is silent
InitCtl == tape = <<>> /\ New

----------------------------------------------------------------------------
(* measure() *)

Reading == pc \in {"sync", "len", "data", "chk"}

\* measure() keeping the buffers of the call before
MeasureCall_keepState ==
  /\ pc \in {"idle", "done"}
  /\ calls < MaxCalls
  /\ calls' = calls + 1
  /\ pc' = "sync"
  /\ prev' = result.kind
  /\ frameAt' = IF ValidFrameAt(tape, pos) THEN pos ELSE -1
  /\ expect' = 0
  /\ result' = NoResult
  /\ lastRead' = NoRead
  /\ UNCHANGED <<raw_length, data, raw_expected>>
  /\ UNCHANGED srcVars
  /\ UNCHANGED ctlVars

\* the caller invokes measure(): let mut expect = 0
MeasureCall ==
  /\ pc \in {"idle", "done"}
  /\ calls < MaxCalls
  /\ calls' = calls + 1
  /\ pc' = "sync"
  /\ prev' = result.kind
  /\ frameAt' = IF ValidFrameAt(tape, pos) THEN pos ELSE -1
  /\ expect' = 0
  /\ raw_length' = <<>>
  /\ data' = <<>>
  /\ raw_expected' = <<>>
  /\ result' = NoResult
  /\ lastRead' = NoRead
  /\ UNCHANGED srcVars
  /\ UNCHANGED ctlVars

\* tty.read() answers WouldBlock: block! calls it again.  The source may do
\* so at any read, and does so for ever once it has run dry.
WouldBlock ==
  /\ Reading
  /\ lastRead' = ReadWouldBlock
  /\ UNCHANGED <<tape, pos, pc, calls, prev, frameAt, locals, result>>
  /\ UNCHANGED ctlVars

\* a hard error taken for WouldBlock: the read is tried again
SerialError_swallow ==
  /\ Reading
  /\ \E e \in IOErrors : lastRead' = ReadErr(e)
  /\ UNCHANGED <<tape, pos, pc, result, calls, prev, frameAt, locals>>
  /\ UNCHANGED ctlVars

\* tty.read() answers Err(Other(e)): .map_err(Error::Serial)? returns
SerialError ==
  /\ Reading
  /\ \E e \in IOErrors :
       /\ lastRead' = ReadErr(e)
       /\ result' = Serial(e)
  /\ pc' = "done"
  /\ UNCHANGED <<tape, pos, calls, prev, frameAt, locals>>
  /\ UNCHANGED ctlVars

\* tty.read() answers Ok(byte): the next byte of the tape
Deliver(byte) ==
  /\ pos < Len(tape)
  /\ byte = tape[pos + 1]
  /\ pos' = pos + 1
  /\ lastRead' = ReadByte(byte)
  /\ UNCHANGED tape

\* the synchronization loop leaving one turn late
SyncByte_lateBreak ==
  /\ pc = "sync"
  /\ \E byte \in 0..255 :
       /\ Deliver(byte)
       /\ LET e == IF byte = PMS5003_DATA_START[expect + 1] THEN expect + 1 ELSE 0
          IN /\ expect' = e
             /\ pc' = IF e > Len(PMS5003_DATA_START) THEN "len" ELSE "sync"
  /\ UNCHANGED <<calls, prev, frameAt, raw_length, data, raw_expected, result>>
  /\ UNCHANGED ctlVars

\* one turn of the synchronization loop
SyncByte ==
  /\ pc = "sync"
  /\ \E byte \in 0..255 :
       /\ Deliver(byte)
       /\ LET e == IF byte = PMS5003_DATA_START[expect + 1] THEN expect + 1 ELSE 0
          IN /\ expect' = e
             /\ pc' = IF e >= Len(PMS5003_DATA_START) THEN "len" ELSE "sync"
  /\ UNCHANGED <<calls, prev, frameAt, raw_length, data, raw_expected, result>>
  /\ UNCHANGED ctlVars

\* read!(self, 2) into raw_length, then the length check
LenByte ==
  /\ pc = "len"
  /\ \E byte \in 0..255 :
       /\ Deliver(byte)
       /\ raw_length' = Append(raw_length, byte)
  /\ IF Len(raw_length') < 2
     THEN /\ pc' = "len"
          /\ result' = result
     ELSE LET length == extract_u16(raw_length', 0)
          IN IF length # (PMS5003_DATA_LENGTH + 2) % U16
             THEN /\ pc' = "done"
                  /\ result' = InvalidLength(length)
             ELSE /\ pc' = "data"
                  /\ result' = result
  /\ UNCHANGED <<calls, prev, frameAt, expect, data, raw_expected>>
  /\ UNCHANGED ctlVars

\* the payload read taking one byte too many
DataByte_oneMore ==
  /\ pc = "data"
  /\ \E byte \in 0..255 :
       /\ Deliver(byte)
       /\ data' = Append(data, byte)
  /\ pc' = IF Len(data') < PMS5003_DATA_LENGTH + 1 THEN "data" ELSE "chk"
  /\ UNCHANGED <<calls, prev, frameAt, expect, raw_length, raw_expected, result>>
  /\ UNCHANGED ctlVars

\* read!(self, PMS5003_DATA_LENGTH) into data
DataByte ==
  /\ pc = "data"
  /\ \E byte \in 0..255 :
       /\ Deliver(byte)
       /\ data' = Append(data, byte)
  /\ pc' = IF Len(data') < PMS5003_DATA_LENGTH THEN "data" ELSE "chk"
  /\ UNCHANGED <<calls, prev, frameAt, expect, raw_length, raw_expected, result>>
  /\ UNCHANGED ctlVars

\* read!(self, 2) into raw_expected, then the checksum check and the parse
ChkByte ==
  /\ pc = "chk"
  /\ \E byte \in 0..255 :
       /\ Deliver(byte)
       /\ raw_expected' = Append(raw_expected, byte)
  /\ IF Len(raw_expected') < 2
     THEN /\ pc' = "chk"
          /\ result' = result
     ELSE LET expected == extract_u16(raw_expected', 0)
              rcv == received(raw_length, data)
          IN /\ pc' = "done"
             /\ result' = IF rcv # expected
                          THEN InvalidData(rcv, expected)
                          ELSE Ok(parse(data))
  /\ UNCHANGED <<calls, prev, frameAt, expect, raw_length, data>>
  /\ UNCHANGED ctlVars

Next ==
  \/ MeasureCall
  \/ WouldBlock
  \/ SerialError
  \/ SyncByte
  \/ LenByte
  \/ DataByte
  \/ ChkByte

Spec == Init /\ [][Next]_vars

\* block! calls tty.read() again at once, so a source that answers WouldBlock
\* only finitely often while it has a byte ready does deliver that byte
Fairness ==
  /\ WF_vars(SyncByte)
  /\ WF_vars(LenByte)
  /\ WF_vars(DataByte)
  /\ WF_vars(ChkByte)

SpecFair == Init /\ [][Next]_vars /\ Fairness

----------------------------------------------------------------------------
(* init() and reset(): Result<(), PE> *)

\* the errors PE a pin operation can return
PinErrors == {1, 2}

CtlOk == [kind |-> "Ok"]
CtlErr(pe) == [kind |-> "Err", pe |-> pe]

\* the caller invokes init()
InitCall ==
  /\ cpc \in {"idle", "done"}
  /\ ctlCalls < MaxCtlCalls
  /\ ctlCalls' = ctlCalls + 1
  /\ op' = "init"
  /\ cpc' = "init_dc"
  /\ events' = <<>>
  /\ cresult' = [kind |-> "None"]
  /\ lastPin' = [kind |-> "None"]
  /\ UNCHANGED <<dc, rst, decVars>>

\* reset() without its first delay
ResetCall_noDelay ==
  /\ cpc \in {"idle", "done"}
  /\ ctlCalls < MaxCtlCalls
  /\ ctlCalls' = ctlCalls + 1
  /\ op' = "reset"
  /\ cpc' = "reset_low"
  /\ events' = <<>>
  /\ cresult' = [kind |-> "None"]
  /\ lastPin' = [kind |-> "None"]
  /\ UNCHANGED <<dc, rst, decVars>>

\* the caller invokes reset()
ResetCall ==
  /\ cpc \in {"idle", "done"}
  /\ ctlCalls < MaxCtlCalls
  /\ ctlCalls' = ctlCalls + 1
  /\ op' = "reset"
  /\ cpc' = "reset_delay1"
  /\ events' = <<>>
  /\ cresult' = [kind |-> "None"]
  /\ lastPin' = [kind |-> "None"]
  /\ UNCHANGED <<dc, rst, decVars>>

\* init going on after a failed dc.set_high()
InitDcSetHigh_ignoreError ==
  /\ cpc = "init_dc"
  /\ events' = Append(events, "dc.set_high")
  /\ \/ /\ dc' = "high"
        /\ lastPin' = [kind |-> "Ok"]
     \/ \E pe \in PinErrors :
          /\ dc' = dc
          /\ lastPin' = [kind |-> "Err", pe |-> pe]
  /\ cpc' = "init_rst"
  /\ cresult' = cresult
  /\ UNCHANGED <<rst, op, ctlCalls, decVars>>

\* init: self.dc.set_high()?;
InitDcSetHigh ==
  /\ cpc = "init_dc"
  /\ events' = Append(events, "dc.set_high")
  /\ \/ /\ dc' = "high"
        /\ lastPin' = [kind |-> "Ok"]
        /\ cpc' = "init_rst"
        /\ cresult' = cresult
     \/ \E pe \in PinErrors :
          /\ dc' = dc
          /\ lastPin' = [kind |-> "Err", pe |-> pe]
          /\ cpc' = "done"
          /\ cresult' = CtlErr(pe)
  /\ UNCHANGED <<rst, op, ctlCalls, decVars>>

\* init: self.rst.set_high()?; and then self.reset()
InitRstSetHigh ==
  /\ cpc = "init_rst"
  /\ events' = Append(events, "rst.set_high")
  /\ \/ /\ rst' = "high"
        /\ lastPin' = [kind |-> "Ok"]
        /\ cpc' = "reset_delay1"
        /\ cresult' = cresult
     \/ \E pe \in PinErrors :
          /\ rst' = rst
          /\ lastPin' = [kind |-> "Err", pe |-> pe]
          /\ cpc' = "done"
          /\ cresult' = CtlErr(pe)
  /\ UNCHANGED <<dc, op, ctlCalls, decVars>>

\* reset: self.delay.delay_ms(100);  (the first statement)
ResetDelay1 ==
  /\ cpc = "reset_delay1"
  /\ events' = Append(events, "delay_ms(100)")
  /\ cpc' = "reset_low"
  /\ UNCHANGED <<dc, rst, op, ctlCalls, cresult, lastPin, decVars>>

\* reset: self.rst.set_low()?;
ResetSetLow ==
  /\ cpc = "reset_low"
  /\ events' = Append(events, "rst.set_low")
  /\ \/ /\ rst' = "low"
        /\ lastPin' = [kind |-> "Ok"]
        /\ cpc' = "reset_delay2"
        /\ cresult' = cresult
     \/ \E pe \in PinErrors :
          /\ rst' = rst
          /\ lastPin' = [kind |-> "Err", pe |-> pe]
          /\ cpc' = "done"
          /\ cresult' = CtlErr(pe)
  /\ UNCHANGED <<dc, op, ctlCalls, decVars>>

\* reset: self.delay.delay_ms(100);  (the third statement)
ResetDelay2 ==
  /\ cpc = "reset_delay2"
  /\ events' = Append(events, "delay_ms(100)")
  /\ cpc' = "reset_high"
  /\ UNCHANGED <<dc, rst, op, ctlCalls, cresult, lastPin, decVars>>

\* reset ending with a second set_low()
ResetSetHigh_setLow ==
  /\ cpc = "reset_high"
  /\ events' = Append(events, "rst.set_low")
  /\ \/ /\ rst' = "low"
        /\ lastPin' = [kind |-> "Ok"]
        /\ cpc' = "done"
        /\ cresult' = CtlOk
     \/ \E pe \in PinErrors :
          /\ rst' = rst
          /\ lastPin' = [kind |-> "Err", pe |-> pe]
          /\ cpc' = "done"
          /\ cresult' = CtlErr(pe)
  /\ UNCHANGED <<dc, op, ctlCalls, decVars>>

\* reset: self.rst.set_high()?; Ok(())
ResetSetHigh ==
  /\ cpc = "reset_high"
  /\ events' = Append(events, "rst.set_high")
  /\ \/ /\ rst' = "high"
        /\ lastPin' = [kind |-> "Ok"]
        /\ cpc' = "done"
        /\ cresult' = CtlOk
     \/ \E pe \in PinErrors :
          /\ rst' = rst
          /\ lastPin' = [kind |-> "Err", pe |-> pe]
          /\ cpc' = "done"
          /\ cresult' = CtlErr(pe)
  /\ UNCHANGED <<dc, op, ctlCalls, decVars>>

NextCtl ==
  \/ InitCall
  \/ ResetCall
  \/ InitDcSetHigh
  \/ InitRstSetHigh
  \/ ResetDelay1
  \/ ResetSetLow
  \/ ResetDelay2
  \/ ResetSetHigh

SpecCtl == InitCtl /\ [][NextCtl]_vars

----------------------------------------------------------------------------
(* Vocabulary of the properties *)

\* big-endian value of two bytes
BE(hi, lo) == 256 * hi + lo

\* no occurrence of 0x42 0x4D in n
NoMarker(n) == \A i \in 1..(Len(n) - 1) : ~(n[i] = 66 /\ n[i + 1] = 77)

\* t begins with the bytes f
StartsWith(t, f) == Len(t) >= Len(f) /\ SubSeq(t, 1, Len(f)) = f

\* s is a prefix of t
IsPrefix(s, t) == Len(s) <= Len(t) /\ s = SubSeq(t, 1, Len(s))

\* the 32 bytes consumed last
LastFrame == SubSeq(tape, pos - 31, pos)

\* the first call has returned and the source reported no hard error
FirstCallReturned == calls = 1 /\ pc = "done" /\ lastRead.kind # "Err"

\* all twelve fields of m are zero
AllZero(m) ==
  /\ m.ug_per_m3 = [pm1p0 |-> 0, pm2p5 |-> 0, pm10p0 |-> 0]
  /\ m.ug_per_m3_atmospheric = [pm1p0 |-> 0, pm2p5 |-> 0, pm10p0 |-> 0]
  /\ m.per_0p1l = [pm0p3 |-> 0, pm0p5 |-> 0, pm1p0 |-> 0,
                   pm2p5 |-> 0, pm5p0 |-> 0, pm10p0 |-> 0]

\* the Measurement the field layout prescribes for the payload P
Layout(P) ==
  [ ug_per_m3 |->
      [ pm1p0 |-> BE(P[1], P[2]), pm2p5 |-> BE(P[3], P[4]), pm10p0 |-> BE(P[5], P[6]) ],
    ug_per_m3_atmospheric |->
      [ pm1p0 |-> BE(P[7], P[8]), pm2p5 |-> BE(P[9], P[10]), pm10p0 |-> BE(P[11], P[12]) ],
    per_0p1l |->
      [ pm0p3 |-> BE(P[13], P[14]), pm0p5 |-> BE(P[15], P[16]),
        pm1p0 |-> BE(P[17], P[18]), pm2p5 |-> BE(P[19], P[20]),
        pm5p0 |-> BE(P[21], P[22]), pm10p0 |-> BE(P[23], P[24]) ] ]

\* t holds the marker followed by the 30 more bytes of a frame
MarkerThenFrame(t) ==
  \E i \in 1..(Len(t) - 1) : t[i] = 66 /\ t[i + 1] = 77 /\ Len(t) >= i + 31

\* the operations of the reset() part of the current call
ResetEvents == IF op = "init" THEN SubSeq(events, 3, Len(events)) ELSE events

----------------------------------------------------------------------------
(* Properties *)

\* C1: when the stream is noise without the marker 0x42 0x4D followed by a
\* well-formed frame, the first measure() reads nothing past that frame and
\* returns the Measurement of that frame's payload, whatever the noise is.
C1_NoiseThenFrame ==
  \A k \in 0..MaxNoise :
    (calls = 1 /\ lastRead.kind # "Err"
       /\ NoMarker(SubSeq(tape, 1, k)) /\ ValidFrameAt(tape, k))
    => /\ pos <= k + 32
       /\ pc = "done" =>
            /\ result.kind = "Ok"
            /\ result.m = Layout(SubSeq(tape, k + 5, k + 30))

\* C2 as stated: on 42 4D 00 1C, 26 zero bytes, 00 8F, measure() returns a
\* Measurement with all fields zero.
C2_Trailer8F ==
  (StartsWith(tape, Frame(28, ZeroPayload, 143)) /\ FirstCallReturned)
  => (result.kind = "Ok" /\ AllZero(result.m))

\* C2 amended: on 42 4D 00 1C, 26 zero bytes, 00 AB, measure() returns a
\* Measurement with all fields zero.
C2_TrailerAB ==
  (StartsWith(tape, Frame(28, ZeroPayload, 171)) /\ FirstCallReturned)
  => (result.kind = "Ok" /\ AllZero(result.m))

C2_Witness ==
  /\ StartsWith(tape, Frame(28, ZeroPayload, 171))
  /\ FirstCallReturned
  /\ result.kind = "Ok"

\* C3 as stated: on 42 4D 00 1C, 26 zero bytes, 00 00, measure() fails with
\* InvalidData(0x8F, 0x00).
C3_Received8F ==
  (StartsWith(tape, Frame(28, ZeroPayload, 0)) /\ FirstCallReturned)
  => (result.kind = "InvalidData" /\ result.received = 143 /\ result.expected = 0)

\* C3 amended: on 42 4D 00 1C, 26 zero bytes, 00 00, measure() fails with
\* InvalidData(0xAB, 0x00).
C3_ReceivedAB ==
  (StartsWith(tape, Frame(28, ZeroPayload, 0)) /\ FirstCallReturned)
  => (result.kind = "InvalidData" /\ result.received = 171 /\ result.expected = 0)

C3_Witness ==
  /\ StartsWith(tape, Frame(28, ZeroPayload, 0))
  /\ FirstCallReturned
  /\ result.kind = "InvalidData"
  /\ result.expected = 0

\* C4: once the two bytes after the marker are read and decode to L # 28,
\* measure() has returned InvalidLength(L); and when it returns InvalidLength
\* the last four bytes consumed are the marker and the length field, nothing
\* of the payload or the trailer has been read.
C4_InvalidLength ==
  /\ (Len(raw_length) = 2 /\ BE(raw_length[1], raw_length[2]) # 28)
     => /\ pc = "done"
        /\ result.kind = "InvalidLength"
        /\ result.length = BE(raw_length[1], raw_length[2])
  /\ (pc = "done" /\ result.kind = "InvalidLength")
     => /\ pos >= 4
        /\ SubSeq(tape, pos - 3, pos) = <<66, 77>> \o raw_length
        /\ result.length = BE(tape[pos - 1], tape[pos])
        /\ result.length # 28
        /\ data = <<>>
        /\ raw_expected = <<>>

C4_Witness ==
  /\ pc = "done"
  /\ result.kind = "InvalidLength"
  /\ result.length = 26
  /\ pos + 28 <= Len(tape)

\* C5: once the trailer is read, the 32 bytes consumed last are the marker,
\* the length field 28, the payload and the trailer T; when T differs from
\* the sum S mod 2^16 of the 30 bytes before it, measure() has returned
\* InvalidData(S, T), not a Measurement.
C5_InvalidData ==
  Len(raw_expected) = 2
  => LET f == LastFrame
         S == ExactSum(SubSeq(f, 1, 30)) % 65536
         T == BE(f[31], f[32])
     IN /\ pos >= 32
        /\ SubSeq(f, 1, 2) = <<66, 77>>
        /\ BE(f[3], f[4]) = 28
        /\ T # S => /\ pc = "done"
                    /\ result.kind = "InvalidData"
                    /\ result.received = S
                    /\ result.expected = T

C5_Witness ==
  /\ pc = "done"
  /\ result.kind = "InvalidData"
  /\ result.expected = 171
  /\ data[26] = 255

\* C6: when measure() returns a Measurement, the 32 bytes consumed last are
\* the marker, the length field 28, a payload, and a trailer equal to the sum
\* mod 65536 of the 30 bytes before it.
C6_OkImpliesValidFrame ==
  (pc = "done" /\ result.kind = "Ok")
  => LET f == LastFrame
     IN /\ pos >= 32
        /\ SubSeq(f, 1, 2) = <<66, 77>>
        /\ BE(f[3], f[4]) = 28
        /\ BE(f[31], f[32]) = ExactSum(SubSeq(f, 1, 30)) % 65536

C6_Witness ==
  /\ pc = "done"
  /\ result.kind = "Ok"
  /\ data[1] = 255

\* C7: a call that follows a failed call and begins right in front of a valid
\* frame reads that frame and nothing more, and returns its Measurement
\* (unless the source reports a hard error).
C7_RetryAfterFailure ==
  (calls >= 2 /\ prev \in {"InvalidLength", "InvalidData", "Serial"}
     /\ frameAt >= 0 /\ lastRead.kind # "Err")
  => /\ pos <= frameAt + 32
     /\ pc = "done" =>
          /\ pos = frameAt + 32
          /\ result.kind = "Ok"
          /\ result.m = Layout(SubSeq(tape, frameAt + 5, frameAt + 30))

C7_Witness ==
  /\ calls = 2
  /\ prev = "InvalidLength"
  /\ frameAt >= 0
  /\ pc = "done"
  /\ result.kind = "Ok"

\* C8: when a read of the source reports the hard error e, measure() has
\* returned Serial(e) and that read is the last one of the call.
C8_SerialError ==
  lastRead.kind = "Err"
  => /\ pc = "done"
     /\ result.kind = "Serial"
     /\ result.e = lastRead.e

C8_Witness ==
  /\ lastRead.kind = "Err"
  /\ result.kind = "Serial"
  /\ Len(data) \in 1..25

\* C9: the Measurement that measure() returns has, in each of its twelve
\* fields, the big-endian value of the two payload bytes at the documented
\* offset.
C9_ParseLayout ==
  (pc = "done" /\ result.kind = "Ok")
  => /\ pos >= 32
     /\ result.m = Layout(SubSeq(tape, pos - 27, pos - 2))

C9_Witness ==
  /\ pc = "done"
  /\ result.kind = "Ok"
  /\ result.m.ug_per_m3_atmospheric.pm2p5 = 2314

\* C10 as stated: a reset() that returns Ok has performed set_low, the 100 ms
\* delay, set_high, the 100 ms delay, in this order.
C10_LowDelayHighDelay ==
  (cpc = "done" /\ cresult.kind = "Ok")
  => ResetEvents = <<"rst.set_low", "delay_ms(100)", "rst.set_high", "delay_ms(100)">>

\* C10 amended: reset() performs the 100 ms delay, set_low, the 100 ms delay,
\* set_high, in this order, and stops at the first pin operation that fails;
\* when it returns Ok it has performed all four, the last being set_high.
C10_DelayLowDelayHigh ==
  LET sequence == <<"delay_ms(100)", "rst.set_low", "delay_ms(100)", "rst.set_high">>
  IN /\ IsPrefix(ResetEvents, sequence)
     /\ (cpc = "done" /\ cresult.kind = "Ok") => ResetEvents = sequence

C10_Witness ==
  /\ op = "reset"
  /\ cpc = "done"
  /\ cresult.kind = "Ok"
  /\ Len(events) = 4

\* C11: init() performs dc.set_high, rst.set_high and then the operations of
\* reset(), in this order; a pin operation that returns the error pe is the
\* last operation of the call, and the call returns Err(pe).
C11_InitSequence ==
  LET sequence == <<"dc.set_high", "rst.set_high", "delay_ms(100)", "rst.set_low",
                    "delay_ms(100)", "rst.set_high">>
  IN /\ op = "init" =>
          /\ IsPrefix(events, sequence)
          /\ (cpc = "done" /\ cresult.kind = "Ok") => events = sequence
     /\ lastPin.kind = "Err" =>
          /\ cpc = "done"
          /\ cresult.kind = "Err"
          /\ cresult.pe = lastPin.pe
          /\ events[Len(events)] # "delay_ms(100)"
     /\ (cpc = "done" /\ cresult.kind = "Err") => lastPin.kind = "Err"

C11_Witness ==
  /\ op = "init"
  /\ cpc = "done"
  /\ cresult.kind = "Err"
  /\ cresult.pe = 2
  /\ events = <<"dc.set_high", "rst.set_high", "delay_ms(100)", "rst.set_low">>

\* C12: the synchronization scan of the first call ends exactly after the
\* first place where 0x42 is immediately followed by 0x4D: while it scans, the
\* bytes consumed hold no marker, and when it ends the two bytes consumed last
\* are the first marker of the stream.
C12_ScanEndsAtFirstMarker ==
  calls = 1 =>
    /\ pc = "sync" => NoMarker(SubSeq(tape, 1, pos))
    /\ (pc = "len" /\ raw_length = <<>>) =>
         /\ pos >= 2
         /\ tape[pos - 1] = 66
         /\ tape[pos] = 77
         /\ NoMarker(SubSeq(tape, 1, pos - 1))

\* C13: a call that returns a Measurement stops right after the trailer of a
\* valid frame; on two valid frames back to back the first call reads the 32
\* bytes of the first frame and returns its Measurement, and the second call
\* reads the next 32 bytes and returns the Measurement of the second frame.
C13_OneFramePerCall ==
  /\ (pc = "done" /\ result.kind = "Ok") =>
       /\ pos >= 32
       /\ ValidFrameAt(tape, pos - 32)
  /\ \A p \in Payloads :
       (calls \in {1, 2} /\ tape[1] = 66
          /\ StartsWith(tape, ValidFrame(p) \o SecondFrame)) =>
         /\ calls = 1 => pos <= 32
         /\ FirstCallReturned =>
              /\ pos = 32
              /\ result.kind = "Ok"
              /\ result.m = Layout(p)
         /\ (calls = 2 /\ prev = "Ok" /\ pc = "done" /\ lastRead.kind # "Err") =>
              /\ pos = 64
              /\ result.kind = "Ok"
              /\ result.m = Layout(RampPayload)

C13_Witness ==
  /\ calls = 2
  /\ prev = "Ok"
  /\ pc = "done"
  /\ result.kind = "Ok"
  /\ pos = 64

\* C14: when the source answers WouldBlock only finitely often per byte and
\* the stream holds a marker followed by a complete frame, the first measure()
\* eventually returns.
C14_EventuallyReturns ==
  (calls = 1 /\ pc = "sync" /\ MarkerThenFrame(tape)) ~> (pc = "done")

\* C15: valid frames that differ only in the payload bytes 24 and 25 decode to
\* the same Measurement (here the all-zero one), and a frame changed in byte
\* 24 or 25 under an unchanged trailer fails with InvalidData.
C15_ReservedBytes ==
  /\ \A p \in ReservedPayloads \cup {ZeroPayload} :
       (FirstCallReturned /\ StartsWith(tape, ValidFrame(p)))
       => (result.kind = "Ok" /\ AllZero(result.m))
  /\ \A p \in ReservedPayloads :
       (FirstCallReturned /\ StartsWith(tape, Frame(28, p, 171)))
       => /\ result.kind = "InvalidData"
          /\ result.received = 426
          /\ result.expected = 171

C15_Witness ==
  /\ StartsWith(tape, ValidFrame([ZeroPayload EXCEPT ![25] = 255]))
  /\ FirstCallReturned
  /\ result.kind = "Ok"

\* C16: while the payload and the trailer are read the length field is 28 and
\* the exact sum of the marker, the length field and the payload bytes read
\* is at most 6801, so no u16 addition wraps and the computed sum is the exact
\* one; a trailer above 6801 leads to InvalidData.
C16_NoOverflow ==
  LET exact == ExactSum(<<66, 77>>) + ExactSum(raw_length) + ExactSum(data)
  IN /\ (pc \in {"data", "chk"} \/ Len(raw_expected) = 2) =>
          /\ raw_length = <<0, 28>>
          /\ exact <= 6801
          /\ received(raw_length, data) = exact
     /\ (Len(raw_expected) = 2 /\ BE(tape[pos - 1], tape[pos]) > 6801) =>
          /\ pc = "done"
          /\ result.kind = "InvalidData"
          /\ result.expected = BE(tape[pos - 1], tape[pos])

C16_Witness ==
  /\ pc = "done"
  /\ result.kind = "InvalidData"
  /\ result.received = 6801
  /\ result.expected = 6802

\* C17: whenever the synchronization loop is about to index the marker, the
\* match counter is 0 or 1; it is 2 only once the loop is left.
C17_ExpectInBounds ==
  /\ expect \in 0..2
  /\ pc = "sync" => expect \in {0, 1}

C17_Witness ==
  /\ pc = "sync"
  /\ expect = 0
  /\ pos >= 2
  /\ tape[pos - 1] = 66
  /\ tape[pos] # 77

\* C18: when init() or reset() returns Ok the level last driven on the reset
\* pin is high, and after init() Ok the data/command pin is high too; when
\* the final set_high of reset() returns an error the level last driven on
\* the reset pin is low.
C18_ResetLineLevel ==
  /\ (cpc = "done" /\ cresult.kind = "Ok") =>
       /\ rst = "high"
       /\ op = "init" => dc = "high"
  /\ (cpc = "done" /\ cresult.kind = "Err" /\ Len(ResetEvents) = 4) =>
       /\ ResetEvents[4] = "rst.set_high"
       /\ rst = "low"

C18_Witness ==
  /\ op = "reset"
  /\ cpc = "done"
  /\ cresult.kind = "Err"
  /\ Len(events) = 4
  /\ rst = "low"

====
